---- MODULE Spec2Model ----
(***************************************************************************)
(* A model of the Hamiltonian data type of pennylane/vqe/vqe.py            *)
(* (construction, map_wires, decompose, is_diagonal), of the               *)
(* ApproxTimeEvolution template and of the hamiltonian_expval transform.   *)
(*                                                                         *)
(* Python objects are modelled by reference where the code shares them:    *)
(* coefficient lists live in `lists` and a Hamiltonian instance holds the  *)
(* index of its list.  Observables are immutable values.                   *)
(***************************************************************************)
EXTENDS Integers, Sequences, FiniteSets, TLC

VARIABLES
    lists,   \* heap of Python lists of coefficients: Seq(Seq(Int))
    objs,    \* heap of Hamiltonian instances: Seq([coeffs: list ref, ops: Seq(term)])
    cur,     \* the instance the script holds (0: none yet)
    call,    \* the last call made: operation, arguments, receiver before the call, outcome
    queue    \* the operations queued so far by templates (the recorder's queue)

vars == <<lists, objs, cur, call, queue>>

(***************************************************************************)
(* Bounds of the model.                                                    *)
(***************************************************************************)
MaxTerms == 2      \* longest coefficient list / observable list handed to the constructor
MaxCalls == 2      \* longest chain of map_wires / decompose calls
MaxN == 2          \* largest number of Trotter steps, largest node of a graph
MaxLayers == 2     \* largest first dimension of rotation_weights

(***************************************************************************)
(* Observables.  A factor is one operator on its wires; a term is either a *)
(* bare Observable (cls "Observable", one factor, .name is a str), a       *)
(* Tensor (cls "Tensor", .name is a list) or something that is no          *)
(* Observable at all (cls "other").                                        *)
(***************************************************************************)
\* a list built by a comprehension, as the sequence of its elements
List(f) == f \o <<>>

Factor(name, wires, matrix) == [name |-> name, wires |-> wires, matrix |-> matrix]

Pauli(name, w) == Factor(name, <<w>>, "none")

Hermitian(matrix, wires) == Factor("Hermitian", wires, matrix)

Observable(f) == [cls |-> "Observable", obs |-> <<f>>]

NotObservable == [cls |-> "other", obs |-> <<>>]

RECURSIVE Flatten(_)
\* Tensor(*args): the factors of the arguments, in order, nested Tensors flattened
Flatten(args) ==
    IF args = <<>> THEN <<>>
    ELSE Head(args).obs \o Flatten(Tail(args))

Tensor(args) == [cls |-> "Tensor", obs |-> Flatten(args)]

\* isinstance(term.name, str)
NameIsStr(term) == term.cls = "Observable"

\* term.name as a list: [term.name] for an Observable, term.name for a Tensor
Names(term) == List([k \in 1..Len(term.obs) |-> term.obs[k].name])

RECURSIVE Concat(_)
Concat(ss) == IF ss = <<>> THEN <<>> ELSE Head(ss) \o Concat(Tail(ss))

\* term.wires: the wires of the factors, in factor order
TermWires(term) == Concat(List([k \in 1..Len(term.obs) |-> term.obs[k].wires]))

InSeq(x, s) == \E k \in 1..Len(s) : s[k] = x

(***************************************************************************)
(* Outcomes of a call.                                                     *)
(***************************************************************************)
Obj(id) == [kind |-> "obj", id |-> id, exc |-> "", val |-> FALSE]

Raise(exc) == [kind |-> "raise", id |-> 0, exc |-> exc, val |-> FALSE]

Bool(b) == [kind |-> "bool", id |-> 0, exc |-> "", val |-> b]

NoneRet == [kind |-> "none", id |-> 0, exc |-> "", val |-> FALSE]

Heap(ls, os) == [lists |-> ls, objs |-> os]

Out(ls, os, ret) == [lists |-> ls, objs |-> os, ret |-> ret]

\* self.coeffs, self.ops of instance h of heap st
Coeffs(st, h) == st.lists[st.objs[h].coeffs]

Ops(st, h) == st.objs[h].ops

(***************************************************************************)
(* Hamiltonian.__init__(coeffs, observables), coeffs being the list cref   *)
(* of the heap.  The instance keeps the list it is given (self._coeffs =   *)
(* coeffs), no copy.                                                       *)
(***************************************************************************)
\* a coefficient given as a complex number re + im*j
Complex(re, im) == [re |-> re, im |-> im]

\* the complex coefficients of the model; every other coefficient (an int, a
\* fraction) is a real number
ComplexValues == {Complex(re, im) : re \in {0 - 1, 0, 1}, im \in {0 - 1, 0, 1}}

\* np.imag(c)
Imag(c) ==
    IF ToString(c) \in {ToString(z) : z \in ComplexValues} THEN c.im ELSE 0

InitNoImagCheck(coeffs, observables) ==
    IF Len(coeffs) # Len(observables)
    THEN "ValueError"
    ELSE IF \E k \in 1..Len(observables) : observables[k].cls = "other"
    THEN "ValueError"
    ELSE "ok"

InitNoLengthCheck(coeffs, observables) ==
    IF \E k \in 1..Len(observables) : observables[k].cls = "other"
    THEN "ValueError"
    ELSE "ok"

InitLengthCheckShorter(coeffs, observables) ==
    IF Len(coeffs) < Len(observables)
    THEN "ValueError"
    ELSE IF \E k \in 1..Len(observables) : observables[k].cls = "other"
    THEN "ValueError"
    ELSE "ok"

\* the checks of __init__: "ok" or the exception raised
HamiltonianInit(coeffs, observables) ==
    IF Len(coeffs) # Len(observables)
    THEN "ValueError"
    \* any(np.imag(coeffs) != 0)
    ELSE IF \E k \in 1..Len(coeffs) : Imag(coeffs[k]) # 0
    THEN "ValueError"
    ELSE IF \E k \in 1..Len(observables) : observables[k].cls = "other"
    THEN "ValueError"
    ELSE "ok"

Hamiltonian(st, cref, observables) ==
    IF HamiltonianInit(st.lists[cref], observables) = "ok"
    THEN Out(st.lists, Append(st.objs, [coeffs |-> cref, ops |-> observables]),
             Obj(Len(st.objs) + 1))
    ELSE Out(st.lists, st.objs, Raise(HamiltonianInit(st.lists[cref], observables)))

(***************************************************************************)
(* Hamiltonian.map_wires(wire_map).  A wire_map is [isdict, map]: map is   *)
(* the dict as a function, isdict is FALSE for an argument of any other    *)
(* type.                                                                   *)
(***************************************************************************)
ObsClasses == {"Identity", "PauliX", "PauliY", "PauliZ", "Hadamard", "Hermitian"}

\* f = lambda wire : wire_map[wire] if wire in wire_map.keys() else wire
MapWire(wire_map, wire) ==
    IF wire \in DOMAIN wire_map.map THEN wire_map.map[wire] ELSE wire

MapFactorKeysOnly(wire_map, i) ==
    LET new_wires == List([p \in 1..Len(i.wires) |->
                              IF i.wires[p] \in DOMAIN wire_map.map
                              THEN wire_map.map[i.wires[p]] ELSE 0])
    IN  IF i.name = "Hermitian"
        THEN Hermitian(i.matrix, new_wires)
        ELSE Factor(i.name, new_wires, "none")

\* one factor rebuilt on its new wires
MapFactor(wire_map, i) ==
    LET new_wires == List([p \in 1..Len(i.wires) |-> MapWire(wire_map, i.wires[p])])
    IN  IF i.name = "Hermitian"
        THEN Hermitian(i.matrix, new_wires)
        ELSE Factor(i.name, new_wires, "none")

\* the body of "for term in self.ops": the new Tensor of one term
MapTerm(wire_map, term) ==
    LET t == IF NameIsStr(term) THEN Tensor(<<term>>) ELSE term
    IN  Tensor(List([k \in 1..Len(t.obs) |-> Observable(MapFactor(wire_map, t.obs[k]))]))

MapWiresInPlace(st, self, wire_map) ==
    IF ~wire_map.isdict THEN Out(st.lists, st.objs, Raise("ValueError"))
    ELSE Out(st.lists,
             [st.objs EXCEPT ![self].ops =
                 List([k \in 1..Len(Ops(st, self)) |-> MapTerm(wire_map, Ops(st, self)[k])])],
             Obj(self))

map_wires(st, self, wire_map) ==
    IF ~wire_map.isdict THEN Out(st.lists, st.objs, Raise("ValueError"))
    ELSE IF \E k \in 1..Len(Ops(st, self)) :
               \E j \in 1..Len(Ops(st, self)[k].obs) :
                   Ops(st, self)[k].obs[j].name \notin ObsClasses
    THEN Out(st.lists, st.objs, Raise("KeyError"))
    ELSE LET new_terms == List([k \in 1..Len(Ops(st, self)) |->
                                   MapTerm(wire_map, Ops(st, self)[k])])
         IN  Hamiltonian(st, st.objs[self].coeffs, new_terms)


(***************************************************************************)
(* pennylane.utils.decompose_hamiltonian(matrix): the Pauli decomposition  *)
(* of a Hermitian matrix, as (coefficients, observables on wires 0..).     *)
(* Matrices are named; "MA" is [[2, 3], [3, 2]] = 2 I + 3 X, and "MZ" is   *)
(* [[1, 0], [0, -1]] = Z.                                                  *)
(***************************************************************************)
Matrices == {"MA", "MZ"}

decompose_hamiltonian(matrix) ==
    IF matrix = "MA"
    THEN [coeffs |-> <<2, 3>>,
          ops |-> <<Observable(Pauli("Identity", 0)), Observable(Pauli("PauliX", 0))>>]
    ELSE [coeffs |-> <<1>>,
          ops |-> <<Observable(Pauli("PauliZ", 0))>>]

(***************************************************************************)
(* Hamiltonian.decompose().                                                *)
(***************************************************************************)
Pair(c, op) == [c |-> c, op |-> op]

RECURSIVE Product(_)
\* itertools.product(*ls): every choice of one element per list, the last list varying fastest
Product(ls) ==
    IF ls = <<>> THEN << <<>> >>
    ELSE LET rest == Product(Tail(ls))
             h == Head(ls)
         IN  Concat(List([x \in 1..Len(h) |->
                             List([r \in 1..Len(rest) |-> <<h[x]>> \o rest[r]])]))

\* {a : b for a, b in enumerate(wires)}
EnumerateMap(wires) ==
    [isdict |-> TRUE, map |-> [a \in 0..(Len(wires) - 1) |-> wires[a + 1]]]

\* list(zip(mapped.coeffs, mapped.ops)), mapped being the instance `made` returns
ZipTerms(made) ==
    List([k \in 1..Len(Coeffs(made, made.ret.id)) |->
             Pair(Coeffs(made, made.ret.id)[k], Ops(made, made.ret.id)[k])])

\* qml.Hamiltonian(reduced[0], reduced[1]).map_wires(wire_map)
MappedReduced(made, wire_map) == map_wires(made, made.ret.id, wire_map)

\* qml.Hamiltonian(reduced[0], reduced[1]) on a heap of its own
ReducedHamiltonian(reduced) ==
    Hamiltonian(Heap(<<reduced.coeffs>>, <<>>), 1, reduced.ops)

\* the reduced_terms entry of the Hermitian factor f
ReducedHermitian(f) ==
    ZipTerms(MappedReduced(ReducedHamiltonian(decompose_hamiltonian(f.matrix)),
                           EnumerateMap(f.wires)))

\* reduced_terms entry for factor j (from 1) of term number i (from 1):
\* a non-Hermitian factor contributes term.obs[i], indexed by the TERM's number
ReducedFactor(term, i, j) ==
    IF term.obs[j].name = "Hermitian"
    THEN [err |-> "", pairs |-> ReducedHermitian(term.obs[j])]
    ELSE IF i > Len(term.obs)
    THEN [err |-> "IndexError", pairs |-> <<>>]
    ELSE [err |-> "", pairs |-> <<Pair(1, Observable(term.obs[i]))>>]

\* all_terms[a] = ((b[0][0] * self.coeffs[i], b[0][1]), b[1])
Rescale(b, c) == <<Pair(b[1].c * c, b[1].op), b[2]>>

\* for a in range(len(all_terms)): all_terms[a] = ((b[0][0] * c, b[0][1]), b[1])
RescaleAll(all_terms, c) ==
    IF \E a \in 1..Len(all_terms) : Len(all_terms[a]) < 2
    THEN [err |-> "IndexError", tuples |-> <<>>]
    ELSE [err |-> "",
          tuples |-> List([a \in 1..Len(all_terms) |-> Rescale(all_terms[a], c)])]

\* all_terms = list(itertools.product(*reduced_terms)), rescaled by c = self.coeffs[i]
AllTerms(reduced_terms, c) ==
    IF \E j \in 1..Len(reduced_terms) : reduced_terms[j].err # ""
    THEN [err |-> "IndexError", tuples |-> <<>>]
    ELSE RescaleAll(Product(List([j \in 1..Len(reduced_terms) |->
                                     reduced_terms[j].pairs])), c)

TermTuplesUnitCoeff(coeffs, ops, i) ==
    LET name == Names(ops[i])
        term == IF Len(name) = 1 THEN Tensor(<<ops[i]>>) ELSE ops[i]
    IN  IF ~InSeq("Hermitian", name)
        THEN [err |-> "", tuples |-> << <<Pair(1, term)>> >>]
        ELSE AllTerms(List([j \in 1..Len(name) |-> ReducedFactor(term, i, j)]),
                      coeffs[i])

\* what one term appends to `terms`: tuples of (coefficient, observable) pairs
TermTuples(coeffs, ops, i) ==
    LET name == Names(ops[i])
        term == IF Len(name) = 1 THEN Tensor(<<ops[i]>>) ELSE ops[i]
    IN  IF ~InSeq("Hermitian", name)
        THEN [err |-> "", tuples |-> << <<Pair(coeffs[i], term)>> >>]
        ELSE AllTerms(List([j \in 1..Len(name) |-> ReducedFactor(term, i, j)]),
                      coeffs[i])

RECURSIVE CoeffProduct(_)
CoeffProduct(term) ==
    IF term = <<>> THEN 1 ELSE Head(term).c * CoeffProduct(Tail(term))

\* final_coeffs, final_terms and the returned qml.Hamiltonian(final_coeffs, final_terms)
FinalHamiltonian(st, terms) ==
    Hamiltonian(Heap(Append(st.lists,
                            List([t \in 1..Len(terms) |-> CoeffProduct(terms[t])])),
                     st.objs),
                Len(st.lists) + 1,
                List([t \in 1..Len(terms) |->
                         Tensor(List([k \in 1..Len(terms[t]) |-> terms[t][k].op]))]))

\* the loop over self.ops, per[i] being what term i appends, then the final loop
DecomposeTerms(st, per) ==
    IF \E i \in 1..Len(per) : per[i].err # ""
    THEN Out(st.lists, st.objs, Raise("IndexError"))
    ELSE FinalHamiltonian(st, Concat(List([i \in 1..Len(per) |-> per[i].tuples])))

decompose(st, self) ==
    DecomposeTerms(st, List([i \in 1..Len(Ops(st, self)) |->
                                TermTuples(Coeffs(st, self), Ops(st, self), i)]))


(***************************************************************************)
(* Hamiltonian.is_diagonal().                                              *)
(***************************************************************************)
\* Tensor.prune(): the Tensor without its Identity factors
Prune(term) ==
    LET non_identity_obs == SelectSeq(term.obs, LAMBDA f : f.name # "Identity")
    IN  IF Len(non_identity_obs) = 0
        THEN Observable(Pauli("Identity", TermWires(term)[1]))
        ELSE IF Len(non_identity_obs) = 1
        THEN Observable(non_identity_obs[1])
        ELSE [cls |-> "Tensor", obs |-> non_identity_obs]

\* the matrix of one factor, by name: Hermitian("MZ") has the matrix of PauliZ
FactorMatrix(f) ==
    IF f.name = "Hermitian"
    THEN (IF f.matrix = "MZ" THEN "PauliZ" ELSE f.matrix)
    ELSE f.name

\* term.matrix: the Kronecker product of the factors' matrices in factor order;
\* two products of these matrices are equal exactly when they agree factor by factor
TermMatrix(term) == List([k \in 1..Len(term.obs) |-> FactorMatrix(term.obs[k])])

\* np.count_nonzero(term.matrix - np.diag(np.diagonal(term.matrix))) != 0
NonDiagonal(term) ==
    \E k \in 1..Len(term.obs) : FactorMatrix(term.obs[k]) \notin {"Identity", "PauliZ"}

IndexOf(x, s) == CHOOSE k \in 1..Len(s) : s[k] = x /\ \A m \in 1..(k - 1) : s[m] # x

\* t = [term.matrix.tolist(), term.wires]
TermKey(term) == [matrix |-> TermMatrix(term), wires |-> TermWires(term)]

\* if isinstance(term, Tensor): term = term.prune()
Pruned(term) == IF term.cls = "Tensor" THEN Prune(term) ELSE term

RECURSIVE CombineLike(_, _, _, _, _)
\* the loop over exp_h.ops from term i on; acc = [obs, coeffs] are
\* non_diagonal_obs and non_diagonal_coeffs
CombineLike(exp_ops, self_coeffs, i, nd_obs, nd_coeffs) ==
    IF i > Len(exp_ops) THEN [err |-> "", coeffs |-> nd_coeffs]
    ELSE IF ~NonDiagonal(Pruned(exp_ops[i]))
    THEN CombineLike(exp_ops, self_coeffs, i + 1, nd_obs, nd_coeffs)
    ELSE IF i > Len(self_coeffs)
    THEN [err |-> "IndexError", coeffs |-> nd_coeffs]
    ELSE IF InSeq(TermKey(Pruned(exp_ops[i])), nd_obs)
    THEN CombineLike(exp_ops, self_coeffs, i + 1, nd_obs,
             [nd_coeffs EXCEPT ![IndexOf(TermKey(Pruned(exp_ops[i])), nd_obs)] =
                                   @ + self_coeffs[i]])
    ELSE CombineLike(exp_ops, self_coeffs, i + 1,
             Append(nd_obs, TermKey(Pruned(exp_ops[i]))),
             Append(nd_coeffs, self_coeffs[i]))

\* all(np.allclose(i, 0.0) for i in non_diagonal_coeffs), or the loop's exception
AllZero(st, acc) ==
    IF acc.err # "" THEN Out(st.lists, st.objs, Raise(acc.err))
    ELSE Out(st.lists, st.objs, Bool(\A k \in 1..Len(acc.coeffs) : acc.coeffs[k] = 0))

\* the body of is_diagonal after exp_h = self.decompose(), exp_h being d's instance
DiagonalOf(st, self, d) ==
    IF d.ret.kind = "raise" THEN Out(st.lists, st.objs, d.ret)
    ELSE AllZero(st, CombineLike(Ops(d, d.ret.id), Coeffs(st, self), 1, <<>>, <<>>))

is_diagonal(st, self) == DiagonalOf(st, self, decompose(st, self))

(***************************************************************************)
(* ApproxTimeEvolution(hamiltonian, time, n, wires).  An angle is the      *)
(* fraction num/den of the true division (-2 * time * coeff) / n.          *)
(***************************************************************************)
PauliNames == {"Identity", "PauliX", "PauliY", "PauliZ"}

\* pauli = {"Identity": "I", "PauliX": "X", "PauliY": "Y", "PauliZ": "Z"}
pauli(name) ==
    CASE name = "Identity" -> "I"
      [] name = "PauliX" -> "X"
      [] name = "PauliY" -> "Y"
      [] name = "PauliZ" -> "Z"

PauliRot(theta, word, wires) ==
    [name |-> "PauliRot", theta |-> theta, word |-> word, wires |-> wires]

\* word of one term, both for a str name and for a list name
Word(term) == List([k \in 1..Len(term.obs) |-> pauli(term.obs[k].name)])

\* count != len(word)
NotAllIdentity(word) == \E k \in 1..Len(word) : word[k] # "I"

WireLabelsThemselves(wires, wire_index) == wire_index

\* [wires[i] for i in wire_index[j]]
TemplateWires(wires, wire_index) ==
    List([p \in 1..Len(wire_index) |-> wires[wire_index[p] + 1]])

ThetaNoStep(time, c, n) == [num |-> (0 - 2) * time * c, den |-> 1]

\* prod = (-2 * time * hamiltonian.coeffs[i]) / n
Theta(time, c, n) == [num |-> (0 - 2) * time * c, den |-> n]

\* the PauliRot of one kept term
TermRot(term, c, time, n, wires) ==
    PauliRot(Theta(time, c, n), Word(term), TemplateWires(wires, TermWires(term)))

KeptAll(coeffs, ops) ==
    List([i \in 1..Len(ops) |-> [term |-> ops[i], c |-> coeffs[i]]])

\* the entries of theta / pauli_words / wire_index: the terms that are not identity-only
Kept(coeffs, ops) ==
    SelectSeq(List([i \in 1..Len(ops) |-> [term |-> ops[i], c |-> coeffs[i]]]),
              LAMBDA e : NotAllIdentity(Word(e.term)))

WiresInRange(wires, term) ==
    \A p \in 1..Len(TermWires(term)) : TermWires(term)[p] < Len(wires)

RepeatOnce(n, block) == IF n = 0 THEN <<>> ELSE block

RECURSIVE Repeat(_, _)
\* for i in range(n): the block of one Trotter step, n times
Repeat(n, block) == IF n = 0 THEN <<>> ELSE block \o Repeat(n - 1, block)

\* the second loop: for i in range(n), one PauliRot per kept term; an index
\* outside wires raises IndexError with the rotations before it already queued
TrotterQueue(kept, time, n, wires) ==
    LET good == {j \in 1..Len(kept) :
                    \A m \in 1..j : WiresInRange(wires, kept[m].term)}
        rots(upto) == List([j \in 1..upto |->
                               TermRot(kept[j].term, kept[j].c, time, n, wires)])
    IN  IF n > 0 /\ Cardinality(good) < Len(kept)
        THEN [queued |-> rots(Cardinality(good)), ret |-> Raise("IndexError")]
        ELSE [queued |-> Repeat(n, rots(Len(kept))), ret |-> NoneRet]

\* the terms for which pauli[...] raises KeyError
NonPauliTerms(ops) ==
    {i \in 1..Len(ops) : \E k \in 1..Len(ops[i].obs) : ops[i].obs[k].name \notin PauliNames}

ApproxTimeEvolutionOneLoop(coeffs, ops, time, n, wires) ==
    IF ops # <<>> /\ n = 0
    THEN [queued |-> <<>>, ret |-> Raise("ZeroDivisionError")]
    ELSE IF NonPauliTerms(ops) # {}
    THEN [queued |-> TrotterQueue(
                         Kept(SubSeq(coeffs, 1,
                                     (CHOOSE i \in NonPauliTerms(ops) :
                                         \A m \in NonPauliTerms(ops) : i <= m) - 1),
                              SubSeq(ops, 1,
                                     (CHOOSE i \in NonPauliTerms(ops) :
                                         \A m \in NonPauliTerms(ops) : i <= m) - 1)),
                         time, 1, wires).queued,
          ret |-> Raise("ValueError")]
    ELSE TrotterQueue(Kept(coeffs, ops), time, n, wires)

ApproxTimeEvolution(coeffs, ops, time, n, wires) ==
    IF ops # <<>> /\ n = 0
    THEN [queued |-> <<>>, ret |-> Raise("ZeroDivisionError")]
    ELSE IF NonPauliTerms(ops) # {}
    THEN [queued |-> <<>>, ret |-> Raise("ValueError")]
    ELSE TrotterQueue(Kept(coeffs, ops), time, n, wires)

\* an argument with its Python type: v is the number it stands for
Val(type, v) == [type |-> type, v |-> v]

CallWithoutTimeCheck(st, hamiltonian, time, n, wires) ==
    IF ~hamiltonian.isH THEN [queued |-> <<>>, ret |-> Raise("ValueError")]
    ELSE IF n.type \notin {"int", "Variable"}
    THEN [queued |-> <<>>, ret |-> Raise("ValueError")]
    ELSE ApproxTimeEvolution(Coeffs(st, hamiltonian.h), Ops(st, hamiltonian.h),
                             time.v, n.v, wires)

\* the template with its input checks: the isinstance tests on hamiltonian,
\* n and time, then the loops
ApproxTimeEvolutionCall(st, hamiltonian, time, n, wires) ==
    IF ~hamiltonian.isH THEN [queued |-> <<>>, ret |-> Raise("ValueError")]
    ELSE IF n.type \notin {"int", "Variable"}
    THEN [queued |-> <<>>, ret |-> Raise("ValueError")]
    ELSE IF time.type \notin {"int", "float", "Variable"}
    THEN [queued |-> <<>>, ret |-> Raise("ValueError")]
    ELSE ApproxTimeEvolution(Coeffs(st, hamiltonian.h), Ops(st, hamiltonian.h),
                             time.v, n.v, wires)

(***************************************************************************)
(* hamiltonian_expval(tape).  A tape is its list of measurements; the obs  *)
(* of a measurement is a Hamiltonian instance (isH, h) or another          *)
(* observable.                                                             *)
(***************************************************************************)
RECURSIVE SumLike(_, _, _)
SumLike(coeffs, ops, t) ==
    IF ops = <<>> THEN 0
    ELSE (IF Head(ops) = t THEN Head(coeffs) ELSE 0) + SumLike(Tail(coeffs), Tail(ops), t)

RECURSIVE Distinct(_)
\* the terms of ops, each once, in order of first appearance
Distinct(ops) ==
    IF ops = <<>> THEN <<>>
    ELSE LET front == Distinct(SubSeq(ops, 1, Len(ops) - 1))
         IN  IF InSeq(ops[Len(ops)], front) THEN front ELSE Append(front, ops[Len(ops)])

SimplifyInPlace(st, h) ==
    LET terms == Distinct(Ops(st, h))
        sums == List([k \in 1..Len(terms) |-> SumLike(Coeffs(st, h), Ops(st, h), terms[k])])
    IN  Out(Append(st.lists, sums),
            [st.objs EXCEPT ![h] = [coeffs |-> Len(st.lists) + 1, ops |-> terms]],
            NoneRet)

\* Hamiltonian.simplify(): like terms combined, as a new instance
simplify(st, h) ==
    LET terms == Distinct(Ops(st, h))
        sums == List([k \in 1..Len(terms) |-> SumLike(Coeffs(st, h), Ops(st, h), terms[k])])
    IN  Hamiltonian(Heap(Append(st.lists, sums), st.objs), Len(st.lists) + 1, terms)

ExpvalIgnoresCount(st, tape) ==
    IF tape = <<>> THEN Out(st.lists, st.objs, Raise("IndexError"))
    ELSE IF ~tape[1].isH
    THEN Out(st.lists, st.objs, Raise("ValueError"))
    ELSE Out(simplify(st, tape[1].h).lists, simplify(st, tape[1].h).objs,
             Raise("NameError"))

hamiltonian_expval(st, tape) ==
    IF tape = <<>> THEN Out(st.lists, st.objs, Raise("IndexError"))
    ELSE IF ~tape[1].isH \/ Len(tape) > 1
    THEN Out(st.lists, st.objs, Raise("ValueError"))
    ELSE LET s == simplify(st, tape[1].h)
         \* line 74 reads the name H, which the module never binds
         IN  Out(s.lists, s.objs, Raise("NameError"))


(***************************************************************************)
(* qaoa.cost_layer(hamiltonian), qaoa.mixer_layer(hamiltonian) and the     *)
(* functions they return.  An argument is [isH, h]: the Hamiltonian        *)
(* instance h, or a value of another type (isH FALSE).  A returned layer   *)
(* is the closure over the instance it was made from.                      *)
(***************************************************************************)
Fn(h) == [kind |-> "fn", id |-> h, exc |-> "", val |-> FALSE]

DiagonalTermsLastTermOnly(ops) ==
    ops = <<>> \/ \A k \in 1..Len(ops[Len(ops)].obs) :
                     ops[Len(ops)].obs[k].name \in {"PauliZ", "Identity"}

\* _diagonal_terms(hamiltonian): val stays True unless some factor of some
\* term is neither PauliZ nor Identity
diagonal_terms(ops) ==
    \A i \in 1..Len(ops) : \A k \in 1..Len(ops[i].obs) :
        ops[i].obs[k].name \in {"PauliZ", "Identity"}

cost_layer(st, arg) ==
    IF ~arg.isH THEN Raise("ValueError")
    ELSE IF ~diagonal_terms(Ops(st, arg.h)) THEN Raise("ValueError")
    ELSE Fn(arg.h)

MixerLayerChecksTerms(st, arg) == cost_layer(st, arg)

MixerLayerChecksPauli(st, arg) ==
    IF ~arg.isH THEN Raise("ValueError")
    ELSE IF NonPauliTerms(Ops(st, arg.h)) # {} THEN Raise("ValueError")
    ELSE Fn(arg.h)

mixer_layer(st, arg) ==
    IF ~arg.isH THEN Raise("ValueError")
    ELSE Fn(arg.h)

\* lambda gamma, wires: ApproxTimeEvolution(hamiltonian, gamma, 1, wires),
\* called with the positional arguments params
Layer(st, h, params) ==
    IF Len(params) # 2 THEN [queued |-> <<>>, ret |-> Raise("TypeError")]
    ELSE ApproxTimeEvolution(Coeffs(st, h), Ops(st, h), params[1], 1, params[2])

(***************************************************************************)
(* The qaoa Hamiltonian builders: edge_driver and maxcut of qaoa/cost.py,  *)
(* x_mixer and xy_mixer of qaoa/qaoa.py.  A graph argument is [type, nodes,*)
(* edges]: type "nx" for a networkx graph (nodes and edges as its views    *)
(* report them), "iterable" for an iterable of elements, "other" for any   *)
(* other value.  An element is [iterable, items].  The float 0.5 * sign is *)
(* the fraction sign/2.                                                    *)
(***************************************************************************)
Frac(num, den) == [num |-> num, den |-> den]

Edge(i, j) == [iterable |-> TRUE, items |-> <<i, j>>]

Tuple2(a, b) == [kind |-> "pair", id |-> <<a, b>>, exc |-> "", val |-> FALSE]

\* qml.PauliZ(e[0]) @ qml.PauliZ(e[1]) and its like
Two(name, e) ==
    Tensor(<<Observable(Pauli(name, e.items[1])), Observable(Pauli(name, e.items[2]))>>)

\* reward after lines 45-50: the string picked when two rewards are left, and
\* otherwise still a list, which equals none of '00', '10', '11'
RewardKey(reward) ==
    IF Cardinality(reward \ {"01"}) = 2
    THEN CHOOSE x \in {"00", "10", "11"} \ reward : TRUE
    ELSE "list"

\* sign = -1, or 1 when two rewards are left
RewardSign(reward) == IF Cardinality(reward \ {"01"}) = 2 THEN 1 ELSE 0 - 1

\* what one edge adds to coeffs, under the branch that key selects
EdgeCoeffs(key, sign) ==
    CASE key = "00" -> <<Frac(sign, 2), Frac(sign, 2), Frac(sign, 2)>>
      [] key = "10" -> <<(0 - 1) * sign>>
      [] key = "11" -> <<Frac(sign, 2), Frac(0 - sign, 2), Frac(0 - sign, 2)>>
      [] OTHER -> <<>>

\* what one edge adds to ops
EdgeOps(key, e) ==
    CASE key \in {"00", "11"} ->
             <<Two("PauliZ", e), Observable(Pauli("PauliZ", e.items[1])),
               Observable(Pauli("PauliZ", e.items[2]))>>
      [] key = "10" -> <<Two("PauliZ", e)>>
      [] OTHER -> <<>>

edge_driver(st, graph, reward) ==
    IF graph.type # "nx" THEN Out(st.lists, st.objs, Raise("ValueError"))
    ELSE Hamiltonian(
             Heap(Append(st.lists,
                         Concat(List([k \in 1..Len(graph.edges) |->
                                         EdgeCoeffs(RewardKey(reward), RewardSign(reward))]))),
                  st.objs),
             Len(st.lists) + 1,
             Concat(List([k \in 1..Len(graph.edges) |->
                             EdgeOps(RewardKey(reward), graph.edges[k])])))

\* qaoa.x_mixer(wires): one PauliX with coefficient 1 per wire
x_mixer(st, wires) ==
    Hamiltonian(Heap(Append(st.lists, List([k \in 1..Len(wires) |-> 1])), st.objs),
                Len(st.lists) + 1,
                List([k \in 1..Len(wires) |-> Observable(Pauli("PauliX", wires[k]))]))

\* the tuple's second element, built on the heap the first one left
MaxcutMixer(cost, graph) ==
    IF cost.ret.kind = "raise" THEN cost
    ELSE Out(x_mixer(cost, graph.nodes).lists, x_mixer(cost, graph.nodes).objs,
             Tuple2(cost.ret.id, x_mixer(cost, graph.nodes).ret.id))

\* return (edge_driver(graph, ['10', '01']), qaoa.x_mixer(graph.nodes))
maxcut(st, graph) == MaxcutMixer(edge_driver(st, graph, {"10", "01"}), graph)

\* _check_iterable_graph(graph): "ok" or the exception raised
check_iterable_graph(elems) ==
    IF \E k \in 1..Len(elems) :
          \/ ~elems[k].iterable
          \/ Len(elems[k].items) # 2
          \/ elems[k].items[1] = elems[k].items[2]
    THEN "ValueError"
    \* len({tuple(g) for g in graph}) != len(graph)
    ELSE IF Cardinality({elems[k].items : k \in 1..Len(elems)}) # Len(elems)
    THEN "ValueError"
    ELSE "ok"

XYTermsYFirst(e) == <<Two("PauliY", e), Two("PauliX", e)>>

\* the two terms appended for one edge
XYTerms(e) == <<Two("PauliX", e), Two("PauliY", e)>>

xy_mixer(st, graph) ==
    IF graph.type \notin {"nx", "iterable"}
    THEN Out(st.lists, st.objs, Raise("ValueError"))
    ELSE IF graph.type = "iterable" /\ check_iterable_graph(graph.edges) # "ok"
    THEN Out(st.lists, st.objs, Raise(check_iterable_graph(graph.edges)))
    ELSE Hamiltonian(
             Heap(Append(st.lists, List([k \in 1..(2 * Len(graph.edges)) |-> Frac(1, 2)])),
                  st.objs),
             Len(st.lists) + 1,
             Concat(List([k \in 1..Len(graph.edges) |-> XYTerms(graph.edges[k])])))

(***************************************************************************)
(* CustomEntanglerLayers(rotation_weights, wires, rotation, coupling,      *)
(* coupling_weights, pattern) with rotation left at its default.  Weights  *)
(* are lists of rows; an optional argument is [given, value]; a pattern is *)
(* [islist, name, pairs]; a gate is [name, num_wires, num_params].  The    *)
(* queue holds the broadcast calls the template issues, in order.          *)
(***************************************************************************)
NoneArg == [given |-> FALSE, value |-> <<>>]

Some(v) == [given |-> TRUE, value |-> v]

Gate(name, num_wires, num_params) ==
    [name |-> name, num_wires |-> num_wires, num_params |-> num_params]

CNOT == Gate("CNOT", 2, 0)

CRX == Gate("CRX", 2, 1)

RX == Gate("RX", 1, 1)

NamedPattern(name) == [islist |-> FALSE, name |-> name, pairs |-> <<>>]

ListPattern(pairs) == [islist |-> TRUE, name |-> "", pairs |-> pairs]

OPTIONS == {"single", "double", "double_odd", "chain", "ring", "pyramid", "all_to_all"}

\* n_parameters[name] for len(wires) = nw
n_parameters(name, nw) ==
    IF name = "single" THEN nw
    ELSE IF nw \in {0, 1} THEN 0
    ELSE CASE name = "double" -> nw \div 2
           [] name = "double_odd" -> (nw - 1) \div 2
           [] name = "chain" -> nw - 1
           [] name = "ring" -> (IF nw = 2 THEN 1 ELSE nw)
           [] name = "pyramid" -> ((nw \div 2) * ((nw \div 2) + 1)) \div 2
           [] name = "all_to_all" -> (nw * (nw - 1)) \div 2

\* check_shape(weights, (rows, cols)) passes
ShapeIs(weights, rows, cols) ==
    Len(weights) = rows /\ \A l \in 1..Len(weights) : Len(weights[l]) = cols

\* one call of broadcast as the template issues it
Broadcast(unitary, pattern, wires, parameters) ==
    [name |-> "broadcast", unitary |-> unitary, pattern |-> pattern, wires |-> wires,
     parameters |-> parameters]

\* if pattern is None: pattern = "ring"
EffectivePattern(pattern) == IF pattern.given THEN pattern.value ELSE NamedPattern("ring")

\* coupling = CNOT / CRX when coupling is None
EffectiveCoupling(coupling, coupling_weights) ==
    IF coupling.given THEN coupling.value
    ELSE IF coupling_weights.given THEN CRX ELSE CNOT

LayerCouplingFirst(layer, rotation_weights, wires, coupling, coupling_weights, pattern) ==
    <<Broadcast(coupling, pattern, wires,
                IF coupling_weights.given THEN Some(coupling_weights.value[layer])
                ELSE NoneArg),
      Broadcast(RX, NamedPattern("single"), wires, Some(rotation_weights[layer]))>>

\* the body of `for layer in range(repeat)`
Layer1(layer, rotation_weights, wires, coupling, coupling_weights, pattern) ==
    <<Broadcast(RX, NamedPattern("single"), wires, Some(rotation_weights[layer])),
      Broadcast(coupling, pattern, wires,
                IF coupling_weights.given THEN Some(coupling_weights.value[layer])
                ELSE NoneArg)>>

ChecksWithoutWireCount(repeat, nw, coupling, coupling_weights, pattern) ==
    \/ coupling.num_params = 0 /\ coupling_weights.given
    \/ coupling.num_params # 0 /\ ~coupling_weights.given
    \/ /\ coupling_weights.given
       /\ \/ Len(coupling_weights.value) # repeat
          \/ /\ ~pattern.islist
             /\ pattern.name \in OPTIONS
             /\ ~ShapeIs(coupling_weights.value, repeat, n_parameters(pattern.name, nw))
          \/ /\ pattern.islist
             /\ ~ShapeIs(coupling_weights.value, repeat, Len(pattern.pairs))

\* the input checks from `coupling.num_wires != 2` on: TRUE when one raises
EntanglerCheckFails(repeat, nw, coupling, coupling_weights, pattern) ==
    \/ coupling.num_wires # 2
    \/ coupling.num_params = 0 /\ coupling_weights.given
    \/ coupling.num_params # 0 /\ ~coupling_weights.given
    \/ /\ coupling_weights.given
       /\ \/ Len(coupling_weights.value) # repeat
          \/ /\ ~pattern.islist
             /\ pattern.name \in OPTIONS
             /\ ~ShapeIs(coupling_weights.value, repeat, n_parameters(pattern.name, nw))
          \/ /\ pattern.islist
             /\ ~ShapeIs(coupling_weights.value, repeat, Len(pattern.pairs))

CustomEntanglerLayers(rotation_weights, wires, coupling, coupling_weights, pattern) ==
    IF ~ShapeIs(rotation_weights, Len(rotation_weights), Len(wires))
    THEN [queued |-> <<>>, ret |-> Raise("ValueError")]
    ELSE IF EntanglerCheckFails(Len(rotation_weights), Len(wires),
                                EffectiveCoupling(coupling, coupling_weights),
                                coupling_weights, EffectivePattern(pattern))
    THEN [queued |-> <<>>, ret |-> Raise("ValueError")]
    ELSE [queued |-> Concat(List([layer \in 1..Len(rotation_weights) |->
                                    Layer1(layer, rotation_weights, wires,
                                           EffectiveCoupling(coupling, coupling_weights),
                                           coupling_weights, EffectivePattern(pattern))])),
          ret |-> NoneRet]

(***************************************************************************)
(* The inputs the scripts and tests hand to the library.                   *)
(***************************************************************************)
CoeffValues == {-1, 1}

X0 == Observable(Pauli("PauliX", 0))

XY == Tensor(<<Observable(Pauli("PauliX", 0)), Observable(Pauli("PauliY", 1))>>)

YX == Tensor(<<Observable(Pauli("PauliY", 1)), Observable(Pauli("PauliX", 0))>>)

II == Tensor(<<Observable(Pauli("Identity", 0)), Observable(Pauli("Identity", 1))>>)

ZIX == Tensor(<<Observable(Pauli("PauliZ", 0)), Observable(Pauli("Identity", 1)),
                Observable(Pauli("PauliX", 2))>>)

H0 == Observable(Hermitian("MA", <<0>>))

HX == Tensor(<<Observable(Hermitian("MA", <<0>>)), Observable(Pauli("PauliX", 1))>>)

XH == Tensor(<<Observable(Pauli("PauliX", 0)), Observable(Hermitian("MA", <<1>>))>>)

ZHX == Tensor(<<Observable(Pauli("PauliZ", 0)), Observable(Hermitian("MZ", <<1>>)),
                Observable(Pauli("PauliX", 2))>>)

TermPool == {X0, XY, YX, II, ZIX, H0, HX, XH, ZHX, NotObservable}

SeqsUpTo(S, n) == UNION {[1..m -> S] : m \in 0..n}

CoeffLists == SeqsUpTo(CoeffValues, MaxTerms)

OpsLists == SeqsUpTo(TermPool, MaxTerms)

Swap01 == [isdict |-> TRUE, map |-> (0 :> 1 @@ 1 :> 0)]

NotADict == [isdict |-> FALSE, map |-> <<>>]

WireMaps == {Swap01, NotADict}

Times == {1, 2}

WiresPool == {<<2, 0, 1>>, <<1, 0>>}

\* a tape with no measurement, with expval(H), with expval(PauliZ), with two measurements
Tapes(h) ==
    LET mH == [isH |-> TRUE, h |-> h]
        mZ == [isH |-> FALSE, h |-> 0]
    IN  {<<>>, <<mH>>, <<mZ>>, <<mH, mZ>>}


Z0 == Observable(Pauli("PauliZ", 0))

Z1 == Observable(Pauli("PauliZ", 1))

X1 == Observable(Pauli("PauliX", 1))

ZZ == Tensor(<<Observable(Pauli("PauliZ", 0)), Observable(Pauli("PauliZ", 1))>>)

ZX == Tensor(<<Observable(Pauli("PauliZ", 0)), Observable(Pauli("PauliX", 1))>>)

\* the terms of the Hamiltonians the qaoa tests build, and tensor products of them
QaoaTermPool == {X0, Z0, Z1, X1, ZZ, ZX, II, H0}

QaoaOpsLists == SeqsUpTo(QaoaTermPool, MaxTerms)

\* hamiltonian = qml.Hamiltonian(...) or hamiltonian = [[1, 1], [1, 1]]
LayerArgs(h) == {[isH |-> TRUE, h |-> h], [isH |-> FALSE, h |-> 0]}

\* cost(gamma) as the tests call the layer, and cost(gamma, wires)
LayerParams == {<<t>> : t \in Times} \cup {<<t, w>> : t \in Times, w \in WiresPool}

\* the nodes a graph may have
Nodes == 0..MaxN

\* nx.Graph([(0, 1), (1, 2), ...]): the path on the nodes 0..k
PathGraph(k) ==
    [type |-> "nx", nodes |-> List([i \in 1..(k + 1) |-> i - 1]),
     edges |-> List([i \in 1..k |-> Edge(i - 1, i)])]

\* nx.Graph()
EmptyGraph == [type |-> "nx", nodes |-> <<>>, edges |-> <<>>]

NxGraphs == {PathGraph(k) : k \in 0..MaxN} \cup {EmptyGraph}

\* the reward argument, by the strings it lists (line 45 takes set(reward))
Rewards == SUBSET {"00", "01", "10", "11"}

\* an argument that is neither a graph nor an iterable
NotAGraph == [type |-> "other", nodes |-> <<>>, edges |-> <<>>]

\* elements of an iterable graph: pairs of nodes, tuples of another length,
\* and a value that is not iterable
Elements ==
    {Edge(i, j) : i \in Nodes, j \in Nodes}
        \cup {[iterable |-> TRUE, items |-> <<0>>],
              [iterable |-> TRUE, items |-> <<0, 1, 2>>],
              [iterable |-> FALSE, items |-> <<>>]}

IterableGraphs ==
    {[type |-> "iterable", nodes |-> <<>>, edges |-> es] : es \in SeqsUpTo(Elements, MaxTerms)}

\* weights of `rows` layers and `cols` columns; every entry tells its layer and column
Weights(rows, cols, base) ==
    List([l \in 1..rows |-> List([c \in 1..cols |-> base + 10 * l + c])])

RotationWeights == {Weights(rows, cols, 0) : rows \in 1..MaxLayers, cols \in 1..3}

CouplingWeights ==
    {NoneArg} \cup {Some(Weights(rows, cols, 100)) : rows \in 1..MaxLayers, cols \in 0..3}

Couplings == {NoneArg, Some(CNOT), Some(CRX), Some(RX)}

Patterns == {NoneArg, Some(NamedPattern("chain")), Some(ListPattern(<<<<0, 1>>>>))}

EntanglerWires == {<<0>>, <<0, 1>>, <<0, 1, 2>>}

\* n as an int, as the float 1.0 and as a str
NArgs == {Val("int", k) : k \in 0..MaxN} \cup {Val("float", 1), Val("str", 1)}

\* time as an int, as the float 1.0 and as a str
TimeArgs == {Val("int", 1), Val("float", 1), Val("str", 1)}

\* coefficients written as complex numbers: 1, -1, 1j, -1-1j
ComplexCoeffValues == {Complex(1, 0), Complex(0 - 1, 0), Complex(0, 1), Complex(0 - 1, 0 - 1)}

ComplexCoeffLists == SeqsUpTo(ComplexCoeffValues, MaxTerms)

(***************************************************************************)
(* The state machine: a script constructs one Hamiltonian and calls the    *)
(* library on it; a transform's result becomes the script's Hamiltonian.   *)
(* No caller catches an exception: a call that raises ends the script.     *)
(***************************************************************************)
NoCall ==
    [op |-> "none", recv |-> 0, pre |-> <<>>, args |-> <<>>, ret |-> NoneRet, n |-> 0,
     nobjs |-> 0]

\* the receiver as the caller sees it
Snapshot(h) == [coeffs |-> lists[objs[h].coeffs], ops |-> objs[h].ops]

Init ==
    /\ lists = <<>>
    /\ objs = <<>>
    /\ cur = 0
    /\ call = NoCall
    /\ queue = <<>>

\* coeffs = [...]; H = qml.Hamiltonian(coeffs, observables)
Construct ==
    /\ lists = <<>>
    /\ \E coeffs \in CoeffLists, observables \in OpsLists :
          \E out \in {Hamiltonian(Heap(<<coeffs>>, <<>>), 1, observables)} :
              /\ lists' = out.lists
              /\ objs' = out.objs
              /\ cur' = out.ret.id
              /\ call' = [op |-> "Hamiltonian", recv |-> 0, pre |-> <<>>,
                          args |-> [coeffs |-> coeffs, observables |-> observables],
                          ret |-> out.ret, n |-> 0,
                          nobjs |-> Len(objs)]
    /\ UNCHANGED queue

\* H = H.map_wires(wire_map)
MapWires ==
    /\ cur # 0
    /\ call.ret.kind # "raise"
    /\ call.n < MaxCalls
    /\ \E wire_map \in WireMaps :
          \E out \in {map_wires(Heap(lists, objs), cur, wire_map)} :
              /\ lists' = out.lists
              /\ objs' = out.objs
              /\ cur' = IF out.ret.kind = "obj" THEN out.ret.id ELSE cur
              /\ call' = [op |-> "map_wires", recv |-> cur, pre |-> Snapshot(cur),
                          args |-> wire_map, ret |-> out.ret, n |-> call.n + 1,
                          nobjs |-> Len(objs)]
    /\ UNCHANGED queue

\* the list a caller reaches as `coeffs`, the list it passed to the
\* constructor, or as H.coeffs, the list the property returns
Reached(target) == IF target = "coeffs" THEN 1 ELSE objs[cur].coeffs

\* coeffs[k] = v or H.coeffs[k] = v: a list entry assigned in place
SetItem ==
    /\ cur # 0
    /\ call.ret.kind # "raise"
    /\ call.n < MaxCalls
    /\ \E target \in {"coeffs", "H.coeffs"} :
          \E k \in 1..Len(lists[Reached(target)]), v \in CoeffValues :
              /\ lists' = [lists EXCEPT ![Reached(target)][k] = v]
              /\ call' = [op |-> "setitem",
                          recv |-> IF target = "coeffs" THEN 0 ELSE cur,
                          pre |-> List([h \in 1..Len(objs) |-> lists[objs[h].coeffs]]),
                          args |-> [target |-> target, k |-> k, v |-> v],
                          ret |-> NoneRet, n |-> call.n + 1, nobjs |-> Len(objs)]
    /\ UNCHANGED <<objs, cur, queue>>

\* H = H.decompose()
Decompose ==
    /\ cur # 0
    /\ call.ret.kind # "raise"
    /\ call.n < MaxCalls
    /\ \E out \in {decompose(Heap(lists, objs), cur)} :
           /\ lists' = out.lists
           /\ objs' = out.objs
           /\ cur' = IF out.ret.kind = "obj" THEN out.ret.id ELSE cur
           /\ call' = [op |-> "decompose", recv |-> cur, pre |-> Snapshot(cur),
                       args |-> <<>>, ret |-> out.ret, n |-> call.n + 1,
                          nobjs |-> Len(objs)]
    /\ UNCHANGED queue

\* H.is_diagonal()
IsDiagonal ==
    /\ cur # 0
    /\ call.ret.kind # "raise"
    /\ \E out \in {is_diagonal(Heap(lists, objs), cur)} :
           /\ lists' = out.lists
           /\ objs' = out.objs
           /\ call' = [op |-> "is_diagonal", recv |-> cur, pre |-> Snapshot(cur),
                       args |-> <<>>, ret |-> out.ret, n |-> call.n,
                          nobjs |-> Len(objs)]
    /\ UNCHANGED <<cur, queue>>

\* ApproxTimeEvolution(H, time, n, wires) inside a recording context
TimeEvolution ==
    /\ cur # 0
    /\ call.ret.kind # "raise"
    /\ call.op # "ApproxTimeEvolution"
    /\ \E time \in Times, n \in 0..MaxN, wires \in WiresPool :
          \E out \in {ApproxTimeEvolution(Snapshot(cur).coeffs, Snapshot(cur).ops,
                                           time, n, wires)} :
              /\ queue' = queue \o out.queued
              /\ call' = [op |-> "ApproxTimeEvolution", recv |-> cur, pre |-> Snapshot(cur),
                          args |-> [time |-> time, n |-> n, wires |-> wires],
                          ret |-> out.ret, n |-> call.n,
                          nobjs |-> Len(objs)]
    /\ UNCHANGED <<lists, objs, cur>>

\* hamiltonian_expval(tape)
HamiltonianExpval ==
    /\ cur # 0
    /\ call.ret.kind # "raise"
    /\ call.op # "hamiltonian_expval"
    /\ \E tape \in Tapes(cur) :
          \E out \in {hamiltonian_expval(Heap(lists, objs), tape)} :
              /\ lists' = out.lists
              /\ objs' = out.objs
              /\ call' = [op |-> "hamiltonian_expval", recv |-> cur, pre |-> Snapshot(cur),
                          args |-> tape, ret |-> out.ret, n |-> call.n,
                          nobjs |-> Len(objs)]
    /\ UNCHANGED <<cur, queue>>

\* hamiltonian = qml.Hamiltonian(coeffs, observables) of the qaoa tests
ConstructQaoa ==
    /\ lists = <<>>
    /\ \E coeffs \in CoeffLists, observables \in QaoaOpsLists :
          \E out \in {Hamiltonian(Heap(<<coeffs>>, <<>>), 1, observables)} :
              /\ lists' = out.lists
              /\ objs' = out.objs
              /\ cur' = out.ret.id
              /\ call' = [op |-> "Hamiltonian", recv |-> 0, pre |-> <<>>,
                          args |-> [coeffs |-> coeffs, observables |-> observables],
                          ret |-> out.ret, n |-> 0,
                          nobjs |-> Len(objs)]
    /\ UNCHANGED queue

\* cost = qaoa.cost_layer(hamiltonian)
CostLayer ==
    /\ call.op = "Hamiltonian"
    /\ \E arg \in LayerArgs(cur) :
          /\ arg.isH => cur # 0
          /\ call' = [op |-> "cost_layer", recv |-> arg.h,
                      pre |-> IF arg.isH THEN Snapshot(cur) ELSE <<>>,
                      args |-> arg, ret |-> cost_layer(Heap(lists, objs), arg),
                      n |-> call.n, nobjs |-> Len(objs)]
    /\ UNCHANGED <<lists, objs, cur, queue>>

\* mixer = qaoa.mixer_layer(hamiltonian)
MixerLayer ==
    /\ call.op = "Hamiltonian"
    /\ \E arg \in LayerArgs(cur) :
          /\ arg.isH => cur # 0
          /\ call' = [op |-> "mixer_layer", recv |-> arg.h,
                      pre |-> IF arg.isH THEN Snapshot(cur) ELSE <<>>,
                      args |-> arg, ret |-> mixer_layer(Heap(lists, objs), arg),
                      n |-> call.n, nobjs |-> Len(objs)]
    /\ UNCHANGED <<lists, objs, cur, queue>>

\* cost(gamma) / cost(gamma, wires) inside a recording context
CallLayer ==
    /\ call.ret.kind = "fn"
    /\ \E params \in LayerParams :
          \E out \in {Layer(Heap(lists, objs), call.ret.id, params)} :
              /\ queue' = queue \o out.queued
              /\ call' = [op |-> "layer", recv |-> call.ret.id,
                          pre |-> Snapshot(call.ret.id),
                          args |-> [of |-> call.op, params |-> params],
                          ret |-> out.ret, n |-> call.n, nobjs |-> Len(objs)]
    /\ UNCHANGED <<lists, objs, cur>>

\* cost_h, mixer_h = qaoa.maxcut(graph)
Maxcut ==
    /\ call.op = "none"
    /\ \E graph \in NxGraphs \cup {NotAGraph} :
          \E out \in {maxcut(Heap(lists, objs), graph)} :
              /\ lists' = out.lists
              /\ objs' = out.objs
              /\ call' = [op |-> "maxcut", recv |-> 0, pre |-> <<>>, args |-> graph,
                          ret |-> out.ret, n |-> call.n, nobjs |-> Len(objs)]
    /\ UNCHANGED <<cur, queue>>

\* H = qaoa.edge_driver(graph, reward)
EdgeDriver ==
    /\ call.op = "none"
    /\ \E graph \in NxGraphs \cup {NotAGraph}, reward \in Rewards :
          \E out \in {edge_driver(Heap(lists, objs), graph, reward)} :
              /\ lists' = out.lists
              /\ objs' = out.objs
              /\ call' = [op |-> "edge_driver", recv |-> 0, pre |-> <<>>,
                          args |-> [graph |-> graph, reward |-> reward],
                          ret |-> out.ret, n |-> call.n, nobjs |-> Len(objs)]
    /\ UNCHANGED <<cur, queue>>

\* mixer_h = qaoa.xy_mixer(graph)
XYMixer ==
    /\ call.op = "none"
    /\ \E graph \in NxGraphs \cup IterableGraphs \cup {NotAGraph} :
          \E out \in {xy_mixer(Heap(lists, objs), graph)} :
              /\ lists' = out.lists
              /\ objs' = out.objs
              /\ call' = [op |-> "xy_mixer", recv |-> 0, pre |-> <<>>, args |-> graph,
                          ret |-> out.ret, n |-> call.n, nobjs |-> Len(objs)]
    /\ UNCHANGED <<cur, queue>>

\* CustomEntanglerLayers(rotation_weights, wires, coupling=..., coupling_weights=...,
\* pattern=...) inside a recording context
EntanglerLayers ==
    /\ call.op = "none"
    /\ \E rotation_weights \in RotationWeights, wires \in EntanglerWires,
          coupling \in Couplings, coupling_weights \in CouplingWeights,
          pattern \in Patterns :
          \E out \in {CustomEntanglerLayers(rotation_weights, wires, coupling,
                                            coupling_weights, pattern)} :
              /\ queue' = queue \o out.queued
              /\ call' = [op |-> "CustomEntanglerLayers", recv |-> 0, pre |-> <<>>,
                          args |-> [rotation_weights |-> rotation_weights,
                                    wires |-> wires, coupling |-> coupling,
                                    coupling_weights |-> coupling_weights,
                                    pattern |-> pattern],
                          ret |-> out.ret, n |-> call.n, nobjs |-> Len(objs)]
    /\ UNCHANGED <<lists, objs, cur>>

\* ApproxTimeEvolution(hamiltonian, time, n, wires) with arguments of any type
TimeEvolutionCall ==
    /\ call.op = "Hamiltonian"
    /\ call.ret.kind # "raise"
    /\ \E hamiltonian \in LayerArgs(cur), time \in TimeArgs, n \in NArgs,
          wires \in WiresPool :
          /\ hamiltonian.isH => cur # 0
          /\ \E out \in {ApproxTimeEvolutionCall(Heap(lists, objs), hamiltonian,
                                                  time, n, wires)} :
                /\ queue' = queue \o out.queued
                /\ call' = [op |-> "ApproxTimeEvolutionCall", recv |-> hamiltonian.h,
                            pre |-> IF hamiltonian.isH THEN Snapshot(cur) ELSE <<>>,
                            args |-> [hamiltonian |-> hamiltonian, time |-> time,
                                      n |-> n, wires |-> wires],
                            ret |-> out.ret, n |-> call.n, nobjs |-> Len(objs)]
    /\ UNCHANGED <<lists, objs, cur>>

\* H = qml.Hamiltonian(coeffs, observables) with coefficients of complex type
ConstructComplex ==
    /\ lists = <<>>
    /\ \E coeffs \in ComplexCoeffLists, observables \in QaoaOpsLists :
          \E out \in {Hamiltonian(Heap(<<coeffs>>, <<>>), 1, observables)} :
              /\ lists' = out.lists
              /\ objs' = out.objs
              /\ cur' = out.ret.id
              /\ call' = [op |-> "Hamiltonian", recv |-> 0, pre |-> <<>>,
                          args |-> [coeffs |-> coeffs, observables |-> observables],
                          ret |-> out.ret, n |-> 0,
                          nobjs |-> Len(objs)]
    /\ UNCHANGED queue

Next == Construct \/ MapWires \/ Decompose \/ IsDiagonal

Spec == Init /\ [][Next]_vars

NextTE == Construct \/ TimeEvolution

SpecTE == Init /\ [][NextTE]_vars

NextTape == Construct \/ HamiltonianExpval

SpecTape == Init /\ [][NextTape]_vars

NextLayers == ConstructQaoa \/ CostLayer \/ MixerLayer \/ CallLayer

SpecLayers == Init /\ [][NextLayers]_vars

NextQaoa == Maxcut \/ XYMixer \/ EdgeDriver

SpecQaoa == Init /\ [][NextQaoa]_vars

NextEntangler == EntanglerLayers

SpecEntangler == Init /\ [][NextEntangler]_vars

NextTECall == ConstructQaoa \/ TimeEvolutionCall

SpecTECall == Init /\ [][NextTECall]_vars

NextAlias == Construct \/ MapWires \/ SetItem

SpecAlias == Init /\ [][NextAlias]_vars

NextComplex == ConstructComplex

SpecComplex == Init /\ [][NextComplex]_vars


(***************************************************************************)
(* Properties.                                                             *)
(***************************************************************************)
Returned == call.ret.kind = "obj"

\* the Hamiltonian a transform returned
Result == [coeffs |-> lists[objs[call.ret.id].coeffs], ops |-> objs[call.ret.id].ops]

\* C1: a constructor call whose coefficient list and observable list differ in
\* length raises ValueError and leaves no Hamiltonian instance behind.
C1_LengthMismatchRaises ==
    (call.op = "Hamiltonian" /\ Len(call.args.coeffs) # Len(call.args.observables))
        => (call.ret = Raise("ValueError") /\ objs = <<>> /\ cur = 0)

C1_Witness ==
    /\ call.op = "Hamiltonian"
    /\ Len(call.args.coeffs) = 2
    /\ Len(call.args.observables) = 1
    /\ call.args.observables[1].cls # "other"
    /\ call.ret.kind = "raise"

\* C2: every Hamiltonian instance reached by a construction followed by any
\* sequence of map_wires and decompose calls has as many coefficients as terms.
C2_CoeffCountEqualsTermCount ==
    \A h \in 1..Len(objs) : Len(lists[objs[h].coeffs]) = Len(objs[h].ops)

C2_Witness ==
    /\ call.op = "map_wires"
    /\ Returned
    /\ call.n = 2
    /\ Len(objs) = 3
    /\ Len(objs[3].ops) > Len(objs[1].ops)
    /\ Len(lists[objs[3].coeffs]) = Len(objs[3].ops)

\* C3: map_wires, decompose and is_diagonal leave the coefficients and the terms
\* of their receiver as they were, whether they return or raise, and the
\* Hamiltonian map_wires or decompose returns is an instance that did not exist
\* before the call.
C3_ReceiverUnchanged ==
    call.op \in {"map_wires", "decompose", "is_diagonal"}
        => /\ Snapshot(call.recv) = call.pre
           /\ (call.op # "is_diagonal" /\ Returned) => call.ret.id > call.nobjs

C3_Witness ==
    /\ call.op = "map_wires"
    /\ Returned
    /\ call.args = Swap01
    /\ Result.ops # call.pre.ops
    /\ Snapshot(call.recv) = call.pre

\* C5: map_wires returns the same coefficients in the same order and, term by
\* term and factor by factor, the same operator (same kind, same matrix) with
\* each wire w replaced by wire_map[w] when w is a key and kept otherwise.
C5_MapWiresRelabels ==
    (call.op = "map_wires" /\ call.args.isdict)
        => /\ Returned
           /\ Result.coeffs = call.pre.coeffs
           /\ Len(Result.ops) = Len(call.pre.ops)
           /\ \A k \in 1..Len(call.pre.ops) :
                 LET old == call.pre.ops[k].obs
                     new == Result.ops[k].obs
                 IN  /\ Len(new) = Len(old)
                     /\ \A j \in 1..Len(old) :
                           /\ new[j].name = old[j].name
                           /\ new[j].matrix = old[j].matrix
                           /\ Len(new[j].wires) = Len(old[j].wires)
                           /\ \A q \in 1..Len(old[j].wires) :
                                 new[j].wires[q] =
                                     IF old[j].wires[q] \in DOMAIN call.args.map
                                     THEN call.args.map[old[j].wires[q]]
                                     ELSE old[j].wires[q]

C5_Witness ==
    /\ call.op = "map_wires"
    /\ call.args = Swap01
    /\ Returned
    /\ call.pre.coeffs = <<1, -1>>
    /\ call.pre.ops = <<ZHX, X0>>
    /\ Result.ops[1].obs[3].wires = <<2>>
    /\ Result.ops[1].obs[1].wires = <<1>>


\* every factor of every term has one of the given names
FactorsAmong(ops, names) ==
    \A k \in 1..Len(ops) : \A j \in 1..Len(ops[k].obs) : ops[k].obs[j].name \in names

\* C6: for a Hamiltonian over Identity, PauliX, PauliY, PauliZ and Hermitian
\* factors, every term of the Hamiltonian decompose() returns consists of
\* Identity/PauliX/PauliY/PauliZ factors only, wherever the Hermitian factor
\* stands in its term and the term in the Hamiltonian.
C6_DecomposedIsPauli ==
    (call.op = "decompose" /\ Returned
        /\ FactorsAmong(call.pre.ops, PauliNames \cup {"Hermitian"}))
        => FactorsAmong(Result.ops, PauliNames)

\* the operator a Pauli term denotes, whatever the order of its factors
Denotes(term) ==
    {<<term.obs[j].wires, term.obs[j].name>> :
        j \in {m \in 1..Len(term.obs) : term.obs[m].name # "Identity"}}

RECURSIVE TotalCoeff(_, _, _)
\* the sum of the coefficients of the terms that denote operator d
TotalCoeff(coeffs, ops, d) ==
    IF ops = <<>> THEN 0
    ELSE (IF Denotes(Head(ops)) = d THEN Head(coeffs) ELSE 0)
             + TotalCoeff(Tail(coeffs), Tail(ops), d)

OffDiagonalCancel(coeffs, ops) ==
    \A k \in 1..Len(ops) :
        (\E j \in 1..Len(ops[k].obs) : ops[k].obs[j].name \in {"PauliX", "PauliY"})
            => TotalCoeff(coeffs, ops, Denotes(ops[k])) = 0

\* C7: on a Hamiltonian over Identity/PauliX/PauliY/PauliZ terms, is_diagonal()
\* returns True exactly when, after adding the coefficients of the terms that
\* denote the same operator (in whatever order their factors are written),
\* every term with a PauliX or PauliY factor has total coefficient 0.
C7_IsDiagonalExact ==
    (call.op = "is_diagonal" /\ FactorsAmong(call.pre.ops, PauliNames))
        => /\ call.ret.kind = "bool"
           /\ call.ret.val = OffDiagonalCancel(call.pre.coeffs, call.pre.ops)


TE == call.op = "ApproxTimeEvolution"

\* the positions of the terms that are not identity-only, in term order
NonIdentityTerms(ops) ==
    {i \in 1..Len(ops) : \E j \in 1..Len(ops[i].obs) : ops[i].obs[j].name # "Identity"}

\* the position of the j-th such term
NthTerm(ops, j) ==
    CHOOSE i \in NonIdentityTerms(ops) :
        Cardinality({m \in NonIdentityTerms(ops) : m <= i}) = j

\* the term that queue entry q stands for, k terms being queued per Trotter step
TermOf(ops, q) ==
    NthTerm(ops, ((q - 1) % Cardinality(NonIdentityTerms(ops))) + 1)

\* the labels of a term's wires, in factor order
Labels(term) == Concat(List([j \in 1..Len(term.obs) |-> term.obs[j].wires]))

\* the Hamiltonian is in Pauli form and its wire labels are positions of `wires`
Applicable ==
    /\ FactorsAmong(call.pre.ops, PauliNames)
    /\ \A i \in NonIdentityTerms(call.pre.ops) :
          \A p \in 1..Len(Labels(call.pre.ops[i])) :
              Labels(call.pre.ops[i])[p] < Len(call.args.wires)

\* the queue holds n blocks, each the PauliRot of the k terms that are not
\* identity-only, in Hamiltonian term order
QueuedInBlocks ==
    LET ops == call.pre.ops
        k == Cardinality(NonIdentityTerms(ops))
    IN  /\ call.ret = NoneRet
        /\ Len(queue) = call.args.n * k
        /\ \A step \in 0..(call.args.n - 1) : \A j \in 1..k :
              LET rot == queue[step * k + j]
                  i == NthTerm(ops, j)
              IN  /\ rot.name = "PauliRot"
                  /\ Len(rot.word) = Len(ops[i].obs)
                  /\ Len(rot.wires) = Len(Labels(ops[i]))
                  /\ rot.theta.num = (0 - 2) * call.args.time * call.pre.coeffs[i]
                  /\ \A m \in 1..Len(ops[i].obs) :
                        (rot.word[m] = "I") = (ops[i].obs[m].name = "Identity")

\* C8 as stated: for every n >= 1 and every Hamiltonian with k terms that are
\* not identity-only, ApproxTimeEvolution terminates having queued exactly
\* n * k PauliRot operations, the k terms in term order, that block n times.
C8_EveryHamiltonian ==
    (TE /\ call.args.n >= 1) => QueuedInBlocks

\* C8 (amended): for every n >= 1 and every Hamiltonian whose factors are all
\* Identity, PauliX, PauliY or PauliZ and whose wire labels are positions of
\* the wires argument, with k terms that are not identity-only,
\* ApproxTimeEvolution returns having queued exactly n * k PauliRot operations:
\* the k terms in Hamiltonian term order, that block n times in sequence.
C8_TrotterBlocks ==
    (TE /\ call.args.n >= 1 /\ Applicable) => QueuedInBlocks

C8_Witness ==
    /\ TE
    /\ call.args.n = 2
    /\ call.pre.ops = <<XY, II>>
    /\ call.pre.coeffs = <<1, -1>>
    /\ call.args.wires = <<2, 0, 1>>
    /\ Len(queue) = 2
    /\ call.ret = NoneRet

\* C9: each PauliRot queued for a term with coefficient c has the angle
\* -2 * time * c / n and a Pauli word whose j-th letter is I, X, Y or Z as the
\* j-th factor of the term is Identity, PauliX, PauliY or PauliZ; the word is as
\* long as the term has factors.
C9_AngleAndWord ==
    TE => \A q \in 1..Len(queue) :
              LET i == TermOf(call.pre.ops, q)
                  term == call.pre.ops[i]
                  rot == queue[q]
              IN  /\ rot.theta.den # 0
                  /\ rot.theta.num * call.args.n
                        = (0 - 2) * call.args.time * call.pre.coeffs[i] * rot.theta.den
                  /\ Len(rot.word) = Len(term.obs)
                  /\ \A j \in 1..Len(term.obs) :
                        \/ rot.word[j] = "I" /\ term.obs[j].name = "Identity"
                        \/ rot.word[j] = "X" /\ term.obs[j].name = "PauliX"
                        \/ rot.word[j] = "Y" /\ term.obs[j].name = "PauliY"
                        \/ rot.word[j] = "Z" /\ term.obs[j].name = "PauliZ"

C9_Witness ==
    /\ TE
    /\ call.args.n = 2
    /\ call.args.time = 2
    /\ call.pre.ops = <<X0, ZIX>>
    /\ call.pre.coeffs = <<1, -1>>
    /\ Len(queue) = 4
    /\ queue[4].word = <<"Z", "I", "X">>
    /\ queue[4].theta = [num |-> 4, den |-> 2]

\* C10: the PauliRot queued for a term whose factors act on the Hamiltonian
\* wires (a_1, ..., a_m) acts on (wires[a_1], ..., wires[a_m]) in that order,
\* in every Trotter step.
C10_WiresArePositions ==
    TE => \A q \in 1..Len(queue) :
              LET a == Labels(call.pre.ops[TermOf(call.pre.ops, q)])
              IN  /\ Len(queue[q].wires) = Len(a)
                  /\ \A p \in 1..Len(a) :
                        /\ a[p] + 1 <= Len(call.args.wires)
                        /\ queue[q].wires[p] = call.args.wires[a[p] + 1]

C10_Witness ==
    /\ TE
    /\ call.args.n = 2
    /\ call.args.wires = <<2, 0, 1>>
    /\ call.pre.ops = <<YX, ZIX>>
    /\ Len(queue) = 4
    /\ queue[3].wires = <<0, 2>>
    /\ queue[4].wires = <<2, 0, 1>>

\* C11 as stated: if any term of the Hamiltonian has a factor that is not
\* Identity, PauliX, PauliY or PauliZ, ApproxTimeEvolution raises ValueError
\* with nothing queued, wherever the offending term stands.
C11_NonPauliAnyN ==
    (TE /\ NonPauliTerms(call.pre.ops) # {}) =>
        (call.ret = Raise("ValueError") /\ queue = <<>>)

\* C11 (amended): for n >= 1, if any term of the Hamiltonian has a factor that
\* is not Identity, PauliX, PauliY or PauliZ, ApproxTimeEvolution raises
\* ValueError with nothing queued, wherever the offending term stands.
C11_NonPauliRaises ==
    (TE /\ call.args.n >= 1 /\ NonPauliTerms(call.pre.ops) # {}) =>
        (call.ret = Raise("ValueError") /\ queue = <<>>)

C11_Witness ==
    /\ TE
    /\ call.args.n = 2
    /\ call.args.wires = <<2, 0, 1>>
    /\ call.pre.ops = <<XY, HX>>
    /\ call.ret = Raise("ValueError")
    /\ queue = <<>>

(***************************************************************************)
(* The qaoa layers.                                                        *)
(***************************************************************************)
LayerCalled == call.op = "layer"

\* C12: the function returned by mixer_layer(h) or cost_layer(h), called with
\* the single parameter value as the tests call it, returns as
\* ApproxTimeEvolution with the same Hamiltonian, the same time and n = 1
\* does and queues exactly the operations that call queues: the same names,
\* parameters and wires in the same order.
C12_LayerQueuesAsTemplate ==
    (LayerCalled /\ Len(call.args.params) = 1) =>
        \E wires \in WiresPool :
            ApproxTimeEvolution(call.pre.coeffs, call.pre.ops,
                                call.args.params[1], 1, wires)
                = [queued |-> queue, ret |-> call.ret]

\* C13: cost_layer(h) raises ValueError for every Hamiltonian h with at least
\* one factor, in any term, that is neither PauliZ nor Identity, and returns
\* a layer function for every Hamiltonian whose factors are all PauliZ or
\* Identity.
C13_CostLayerDiagonalOnly ==
    (call.op = "cost_layer" /\ call.args.isH) =>
        IF FactorsAmong(call.pre.ops, {"PauliZ", "Identity"})
        THEN call.ret = Fn(call.args.h)
        ELSE call.ret = Raise("ValueError")

C13_Witness ==
    /\ call.op = "cost_layer"
    /\ call.args.isH
    /\ call.pre.ops = <<ZX, Z0>>
    /\ call.ret = Raise("ValueError")

\* C14: cost_layer and mixer_layer raise ValueError when the argument is not
\* a Hamiltonian instance, and mixer_layer returns a layer function for every
\* Hamiltonian instance, whatever its terms.
C14_LayerArgumentType ==
    /\ (call.op \in {"cost_layer", "mixer_layer"} /\ ~call.args.isH) =>
            call.ret = Raise("ValueError")
    /\ (call.op = "mixer_layer" /\ call.args.isH) => call.ret = Fn(call.args.h)

C14_Witness ==
    /\ call.op = "mixer_layer"
    /\ call.args.isH
    /\ call.pre.ops = <<X1, H0>>
    /\ call.ret = Fn(cur)

(***************************************************************************)
(* The qaoa Hamiltonian builders.                                          *)
(***************************************************************************)
\* the coefficients and terms of instance h as the heap holds them now
CoeffsNow(h) == lists[objs[h].coeffs]

OpsNow(h) == objs[h].ops

\* C15: for every nx.Graph, maxcut returns a cost Hamiltonian with, for each
\* edge (i, j), a term Z_i Z_j of coefficient 0.5 and an identity term of
\* coefficient -0.5, together with a mixer Hamiltonian with one PauliX term of
\* coefficient 1 per node.
C15_MaxcutHamiltonians ==
    (call.op = "maxcut" /\ call.args.type = "nx") =>
        /\ call.ret.kind = "pair"
        /\ \A k \in 1..Len(call.args.edges) :
              /\ \E t \in 1..Len(OpsNow(call.ret.id[1])) :
                     /\ OpsNow(call.ret.id[1])[t] = Two("PauliZ", call.args.edges[k])
                     /\ CoeffsNow(call.ret.id[1])[t] = Frac(1, 2)
              /\ \E t \in 1..Len(OpsNow(call.ret.id[1])) :
                     /\ FactorsAmong(<<OpsNow(call.ret.id[1])[t]>>, {"Identity"})
                     /\ CoeffsNow(call.ret.id[1])[t] = Frac(0 - 1, 2)
        /\ Len(OpsNow(call.ret.id[2])) = Len(call.args.nodes)
        /\ \A k \in 1..Len(call.args.nodes) :
              /\ OpsNow(call.ret.id[2])[k] = Observable(Pauli("PauliX", call.args.nodes[k]))
              /\ CoeffsNow(call.ret.id[2])[k] = 1

\* every element is a pair of two different nodes and no two elements join
\* the same two nodes, in whichever order they list them
WellFormed(edges) ==
    /\ \A k \in 1..Len(edges) :
          /\ edges[k].iterable
          /\ Len(edges[k].items) = 2
          /\ edges[k].items[1] # edges[k].items[2]
    /\ \A k, m \in 1..Len(edges) :
          k # m => {edges[k].items[1], edges[k].items[2]}
                       # {edges[m].items[1], edges[m].items[2]}

\* C18: for every graph with edge list e_1..e_m, xy_mixer returns a
\* Hamiltonian with exactly 2m terms and 2m coefficients, all 0.5, terms
\* 2k-1 and 2k being X_i X_j and Y_i Y_j for e_k = (i, j); with no edges the
\* Hamiltonian has no terms.
C18_XYMixerTerms ==
    (/\ call.op = "xy_mixer"
     /\ \/ call.args.type = "nx"
        \/ call.args.type = "iterable" /\ WellFormed(call.args.edges)) =>
        /\ call.ret.kind = "obj"
        /\ Len(OpsNow(call.ret.id)) = 2 * Len(call.args.edges)
        /\ Len(CoeffsNow(call.ret.id)) = 2 * Len(call.args.edges)
        /\ \A t \in 1..Len(CoeffsNow(call.ret.id)) : CoeffsNow(call.ret.id)[t] = Frac(1, 2)
        /\ \A k \in 1..Len(call.args.edges) :
              /\ OpsNow(call.ret.id)[2 * k - 1] = Two("PauliX", call.args.edges[k])
              /\ OpsNow(call.ret.id)[2 * k] = Two("PauliY", call.args.edges[k])

C18_Witness ==
    /\ call.op = "xy_mixer"
    /\ call.args.type = "iterable"
    /\ call.args.edges = <<Edge(0, 1), Edge(2, 1)>>
    /\ call.ret.kind = "obj"
    /\ Len(OpsNow(call.ret.id)) = 4
    /\ OpsNow(call.ret.id)[4] = Two("PauliY", Edge(2, 1))

\* C19: xy_mixer raises ValueError for an iterable graph with an element that
\* is not iterable, an element not of length 2, an edge from a node to itself,
\* or two elements joining the same two nodes in whichever order, and for an
\* argument that is neither a networkx graph nor an iterable.
C19_MalformedGraphRaises ==
    (/\ call.op = "xy_mixer"
     /\ \/ call.args.type = "other"
        \/ call.args.type = "iterable" /\ ~WellFormed(call.args.edges)) =>
        call.ret = Raise("ValueError")

(***************************************************************************)
(* The hamiltonian_expval transform.                                       *)
(***************************************************************************)
Expval == call.op = "hamiltonian_expval"

\* C16: for every tape whose only measurement is the expectation value of a
\* Hamiltonian, hamiltonian_expval returns normally, with the pair (list of
\* tapes, processing function) that measurement grouping makes of the
\* simplified Hamiltonian's terms and coefficients.
C16_ExpvalReturns ==
    (Expval /\ Len(call.args) = 1 /\ call.args[1].isH) => call.ret.kind = "pair"

\* C17: hamiltonian_expval raises ValueError when the observable of the
\* tape's first measurement is not a Hamiltonian or the tape has more than
\* one measurement, and then it has neither simplified the observable nor
\* produced anything: the heap is as it was before the call.
C17_ExpvalRejectsTape ==
    (/\ Expval
     /\ call.args # <<>>
     /\ ~call.args[1].isH \/ Len(call.args) > 1) =>
        /\ call.ret = Raise("ValueError")
        /\ Len(objs) = call.nobjs
        /\ Len(lists) = 1
        /\ Snapshot(call.recv) = call.pre

C17_Witness ==
    /\ Expval
    /\ Len(call.args) = 2
    /\ call.args[1].isH
    /\ call.pre.ops = <<X0, X0>>
    /\ call.ret = Raise("ValueError")
    /\ Len(objs) = 1

(***************************************************************************)
(* CustomEntanglerLayers.                                                  *)
(***************************************************************************)
\* C20: a call of CustomEntanglerLayers with rotation_weights of first
\* dimension L that passes the input checks issues exactly L layers in index
\* order: in layer l the rotation broadcast (pattern 'single', all wires,
\* parameters rotation_weights[l]) comes first and the coupling broadcast
\* second, and the coupling broadcast gets coupling_weights[l] exactly when
\* coupling_weights was given.
C20_LayersInOrder ==
    (call.op = "CustomEntanglerLayers" /\ call.ret = NoneRet) =>
        /\ Len(queue) = 2 * Len(call.args.rotation_weights)
        /\ \A l \in 1..Len(call.args.rotation_weights) :
              /\ queue[2 * l - 1].unitary = RX
              /\ queue[2 * l - 1].pattern = NamedPattern("single")
              /\ queue[2 * l - 1].wires = call.args.wires
              /\ queue[2 * l - 1].parameters = Some(call.args.rotation_weights[l])
              /\ queue[2 * l].unitary.num_wires = 2
              /\ queue[2 * l].wires = call.args.wires
              /\ queue[2 * l].parameters.given = call.args.coupling_weights.given
              /\ call.args.coupling_weights.given =>
                    queue[2 * l].parameters.value = call.args.coupling_weights.value[l]

C20_Witness ==
    /\ call.op = "CustomEntanglerLayers"
    /\ call.ret = NoneRet
    /\ Len(call.args.rotation_weights) = 2
    /\ call.args.wires = <<0, 1, 2>>
    /\ call.args.coupling_weights.given
    /\ Len(queue) = 4
    /\ queue[3].parameters.value = <<21, 22, 23>>
    /\ queue[4].parameters.value = <<121, 122>>

\* the coupling gate the call works with: the one given, or the default
CouplingUsed ==
    IF call.args.coupling.given THEN call.args.coupling.value
    ELSE IF call.args.coupling_weights.given THEN CRX ELSE CNOT

\* C21: CustomEntanglerLayers couples with CNOT when neither coupling nor
\* coupling_weights is given and with CRX when only coupling_weights is given,
\* and raises ValueError, with nothing queued, when the coupling gate does not
\* act on 2 wires, when a parameter-free coupling gate is given
\* coupling_weights, when a parameterised coupling gate is given none, or when
\* the first dimensions of rotation_weights and coupling_weights differ.
C21_CouplingDefaultsAndChecks ==
    call.op = "CustomEntanglerLayers" =>
        /\ (call.ret = NoneRet /\ ~call.args.coupling.given) =>
              \A l \in 1..Len(call.args.rotation_weights) :
                  queue[2 * l].unitary =
                      IF call.args.coupling_weights.given THEN CRX ELSE CNOT
        /\ (\/ CouplingUsed.num_wires # 2
            \/ CouplingUsed.num_params = 0 /\ call.args.coupling_weights.given
            \/ CouplingUsed.num_params # 0 /\ ~call.args.coupling_weights.given
            \/ /\ call.args.coupling_weights.given
               /\ Len(call.args.coupling_weights.value)
                      # Len(call.args.rotation_weights)) =>
              (call.ret = Raise("ValueError") /\ queue = <<>>)

C21_Witness ==
    /\ call.op = "CustomEntanglerLayers"
    /\ call.args.coupling = Some(RX)
    /\ call.args.wires = <<0, 1>>
    /\ call.args.rotation_weights = Weights(2, 2, 0)
    /\ call.args.coupling_weights = Some(Weights(2, 1, 100))
    /\ call.args.pattern = NoneArg
    /\ call.ret = Raise("ValueError")
    /\ queue = <<>>

\* C22: ApproxTimeEvolution raises ValueError, with no operation queued, when
\* hamiltonian is not a Hamiltonian instance, when n is not an int (or
\* Variable), or when time is not an int or float (or Variable).
C22_ArgumentTypes ==
    (/\ call.op = "ApproxTimeEvolutionCall"
     /\ \/ ~call.args.hamiltonian.isH
        \/ call.args.n.type \notin {"int", "Variable"}
        \/ call.args.time.type \notin {"int", "float", "Variable"}) =>
        (call.ret = Raise("ValueError") /\ queue = <<>>)

C22_Witness ==
    /\ call.op = "ApproxTimeEvolutionCall"
    /\ call.args.hamiltonian.isH
    /\ call.pre.ops = <<X0, Z1>>
    /\ call.args.n = Val("int", 1)
    /\ call.args.time = Val("str", 1)
    /\ call.args.wires = <<1, 0>>
    /\ call.ret = Raise("ValueError")
    /\ queue = <<>>

\* C23: constructing a Hamiltonian in which some coefficient has a non-zero
\* imaginary part raises ValueError; with as many coefficients as terms, all
\* of them real, and observables for terms (the empty lists included) the
\* Hamiltonian is accepted.
C23_RealCoefficients ==
    call.op = "Hamiltonian" =>
        /\ (\E k \in 1..Len(call.args.coeffs) : call.args.coeffs[k].im # 0) =>
              call.ret = Raise("ValueError")
        /\ (/\ \A k \in 1..Len(call.args.coeffs) : call.args.coeffs[k].im = 0
            /\ Len(call.args.coeffs) = Len(call.args.observables)) =>
              (/\ call.ret.kind = "obj"
               /\ CoeffsNow(call.ret.id) = call.args.coeffs
               /\ OpsNow(call.ret.id) = call.args.observables)

C23_Witness ==
    /\ call.op = "Hamiltonian"
    /\ call.args.coeffs = <<Complex(1, 0), Complex(0, 1)>>
    /\ call.args.observables = <<Z0, X1>>
    /\ call.ret = Raise("ValueError")
    /\ objs = <<>>

\* C24: mixer_layer(h) returns a layer function without error for a
\* Hamiltonian with a factor outside Identity, PauliX, PauliY, PauliZ and
\* queues nothing; the error comes only from the later call of that function:
\* the call raises, with the two arguments of the layer function the
\* exception is ValueError, it is the outcome the caller sees, and no gate is
\* queued by the call.
C24_PauliCheckDeferred ==
    /\ (call.op = "mixer_layer" /\ call.args.isH
            /\ NonPauliTerms(call.pre.ops) # {}) =>
          (call.ret = Fn(call.args.h) /\ queue = <<>>)
    /\ (LayerCalled /\ call.args.of = "mixer_layer"
            /\ NonPauliTerms(call.pre.ops) # {}) =>
          /\ call.ret.kind = "raise"
          /\ Len(call.args.params) = 2 => call.ret = Raise("ValueError")
          /\ queue = <<>>

C24_Witness ==
    /\ LayerCalled
    /\ call.args.of = "mixer_layer"
    /\ call.pre.ops = <<X0, H0>>
    /\ call.args.params = <<1, <<1, 0>> >>
    /\ call.ret = Raise("ValueError")
    /\ queue = <<>>

\* the letters of a term's factors, Identity giving I
Letters(term) ==
    List([j \in 1..Len(term.obs) |->
            IF term.obs[j].name = "Identity" THEN "I"
            ELSE IF term.obs[j].name = "PauliX" THEN "X"
            ELSE IF term.obs[j].name = "PauliY" THEN "Y"
            ELSE "Z"])

\* C25: ApproxTimeEvolution queues no operation for a term all of whose
\* factors are Identity (no queued word consists of I only), and when it
\* returns, each Trotter step holds the remaining terms in their relative
\* order; for a Hamiltonian with only identity-only terms, or with no terms,
\* the queue stays empty for every n.
C25_IdentityTermsSkipped ==
    TE =>
        LET ops == call.pre.ops
            k == Cardinality(NonIdentityTerms(ops))
        IN  /\ \A q \in 1..Len(queue) : \E m \in 1..Len(queue[q].word) :
                  queue[q].word[m] # "I"
            /\ call.ret = NoneRet =>
                  /\ Len(queue) = call.args.n * k
                  /\ \A q \in 1..Len(queue) :
                        queue[q].word = Letters(ops[NthTerm(ops, ((q - 1) % k) + 1)])
            /\ k = 0 => queue = <<>>

C25_Witness ==
    /\ TE
    /\ call.args.n = 2
    /\ call.args.wires = <<2, 0, 1>>
    /\ call.pre.ops = <<II, XY>>
    /\ call.ret = NoneRet
    /\ Len(queue) = 2
    /\ queue[1].word = <<"X", "Y">>
    /\ queue[2].word = <<"X", "Y">>

\* the names a factor of the model can have
Names0 == PauliNames \cup {"Hermitian"}

\* the Hamiltonian that decompose() returns for the instance the last call returned
DecomposedAgain == decompose(Heap(lists, objs), call.ret.id)

\* C26: for every Hamiltonian with no Hermitian factor, decompose() returns a
\* Hamiltonian with the same coefficients in the same order and, term by
\* term, the same factors on the same wires; decomposing the result again
\* returns an equal Hamiltonian.
C26_DecomposeKeepsPauliTerms ==
    (call.op = "decompose" /\ FactorsAmong(call.pre.ops, Names0 \ {"Hermitian"})) =>
        /\ Returned
        /\ Result.coeffs = call.pre.coeffs
        /\ Len(Result.ops) = Len(call.pre.ops)
        /\ \A k \in 1..Len(call.pre.ops) : Result.ops[k].obs = call.pre.ops[k].obs
        /\ DecomposedAgain.ret.kind = "obj"
        /\ Coeffs(DecomposedAgain, DecomposedAgain.ret.id) = Result.coeffs
        /\ Ops(DecomposedAgain, DecomposedAgain.ret.id) = Result.ops

C26_Witness ==
    /\ call.op = "decompose"
    /\ call.n = 2
    /\ call.pre.coeffs = <<1, -1>>
    /\ call.pre.ops = <<Tensor(<<X0>>), ZIX>>
    /\ Returned
    /\ Result = call.pre

\* the (coefficient, factor) pairs that stand for factor f in a decomposed
\* term: the Pauli decomposition of a Hermitian factor on f's wires, f itself
\* with coefficient 1 otherwise
FactorChoices(f) ==
    IF f.name = "Hermitian"
    THEN {[c |-> ReducedHermitian(f)[k].c, f |-> ReducedHermitian(f)[k].op.obs[1]] :
             k \in 1..Len(ReducedHermitian(f))}
    ELSE {[c |-> 1, f |-> f]}

RECURSIVE ChoiceCoeff(_)
ChoiceCoeff(ch) == IF ch = <<>> THEN 1 ELSE Head(ch).c * ChoiceCoeff(Tail(ch))

\* the terms the claim expects for a term of coefficient c: one factor choice
\* per factor, in factor order
ExpectedTerms(c, term) ==
    LET all == UNION {FactorChoices(term.obs[j]) : j \in 1..Len(term.obs)}
        chs == {ch \in [1..Len(term.obs) -> all] :
                   \A j \in 1..Len(term.obs) : ch[j] \in FactorChoices(term.obs[j])}
    IN  {[c |-> c * ChoiceCoeff(List(ch)),
          obs |-> List([j \in 1..Len(term.obs) |-> ch[j].f])] : ch \in chs}

HasHermitian(term) == \E j \in 1..Len(term.obs) : term.obs[j].name = "Hermitian"

\* C27 as stated: for every Hamiltonian with a term that contains a Hermitian
\* factor, whether that factor stands alone, with one other factor or with
\* more, decompose() returns without raising, and every produced term comes
\* from an original term: as many factors, factor j on the wires of the
\* original factor j, the non-Hermitian factors unchanged, the coefficient the
\* original one times the Pauli-decomposition coefficients.
C27_HermitianTermsDecomposed ==
    (call.op = "decompose"
        /\ \E i \in 1..Len(call.pre.ops) : HasHermitian(call.pre.ops[i])) =>
        /\ Returned
        /\ \A k \in 1..Len(Result.ops) :
              \E i \in 1..Len(call.pre.ops) :
                  [c |-> Result.coeffs[k], obs |-> Result.ops[k].obs]
                      \in ExpectedTerms(call.pre.coeffs[i], call.pre.ops[i])

\* the state the claim calls selected: the one rewarded state left after
\* removing '01', or the one of '00', '10', '11' that the two left do not list
SelectedState(reward) ==
    IF Cardinality(reward \ {"01"}) = 1
    THEN CHOOSE x \in reward \ {"01"} : TRUE
    ELSE CHOOSE x \in {"00", "10", "11"} \ reward : TRUE

\* C28 as stated: edge_driver raises ValueError when graph is not an nx.Graph;
\* for an nx.Graph with m edges and a reward list that leaves one or two
\* states once '01' is removed, it returns a Hamiltonian with m terms when
\* the selected state is '10' and with 3m terms when it is '00' or '11'.
C28_EdgeDriverTermCount ==
    call.op = "edge_driver" =>
        /\ call.args.graph.type # "nx" => call.ret = Raise("ValueError")
        /\ (call.args.graph.type = "nx"
                /\ Cardinality(call.args.reward \ {"01"}) \in {1, 2}) =>
              /\ Returned
              /\ Len(Result.coeffs) = Len(Result.ops)
              /\ Len(Result.ops) =
                    (IF SelectedState(call.args.reward) = "10" THEN 1 ELSE 3)
                        * Len(call.args.graph.edges)

\* C29 as stated: no two Hamiltonian instances share mutable coefficient
\* storage, and none shares it with its caller: assigning an entry of
\* h2.coeffs in place, h2 being the result of h.map_wires(m), leaves the
\* coefficients of every other instance as they were, and assigning an entry
\* of the list that was passed to the constructor leaves the coefficients of
\* every instance as they were.
C29_CoeffsNotShared ==
    call.op = "setitem" =>
        \A h \in 1..Len(objs) : h # call.recv => CoeffsNow(h) = call.pre[h]

====
